---- MODULE Spec2Model ----
(***************************************************************************)
(* SokhanNegar: the usage ledger (src/usage_tracker.py, class              *)
(* UsageTracker) and the recognition path that feeds it                    *)
(* (src/SokhanNegar.py, src/whisper_api.py) as a state machine.            *)
(*                                                                         *)
(* The ledger keeps no state in memory: every public method reads the JSON *)
(* document at storage_path, changes the parsed dictionary and writes it   *)
(* back through a temporary file.  The state is therefore the file system  *)
(* (the storage file, the ".tmp" file, the backups), the clock, the lock   *)
(* of each UsageTracker instance and the position and locals of each       *)
(* thread that is inside a method.                                         *)
(*                                                                         *)
(* Numbers.  Minute quantities are kept as integers counting sixtieths of  *)
(* a minute, so duration_seconds / 60.0 minutes is the integer             *)
(* duration_seconds; sums are exact (binary floating point rounding of the *)
(* additions is not modelled).  Snapshot values are hundredths of a minute *)
(* (round(x, 2)).  The created_at / last_updated stamps are not modelled.  *)
(***************************************************************************)
EXTENDS Integers, FiniteSets, Sequences, TLC

\* ------------------------------------------------------------------ bounds
NumThreads == 2          \* K: threads that call into the ledger
MaxCalls == 2            \* the calls made in all
MaxDay == 8              \* the clock stops at this day
DaysPerWeek == 7         \* datetime.isocalendar(): ISO weeks
\* the day the model starts: a Sunday, so that one tick of the clock changes
\* the day and the ISO week
FirstDay == DaysPerWeek

Threads == 1..NumThreads
Instances == Threads     \* UsageTracker objects on the same storage_path
Days == FirstDay..MaxDay

\* _get_week_key: the ISO week of a day (day 1 is a Monday)
WeekKey(day) == ((day - 1) \div DaysPerWeek) + 1
\* _get_day_key
DayKey(day) == day
Weeks == {WeekKey(d) : d \in Days}

\* the durations a caller passes, in seconds
Durations == {-30, 0, 30, 60}
\* the periods a caller passes to reset_usage ("monthly" is documented, not handled)
Periods == {"daily", "weekly", "all", "monthly"}

\* --------------------------------------------------------- JSON documents
\* A JSON value of a scalar field: its type tag and, for a number, its value.
Val(tag, n) == [t |-> tag, n |-> n]
JFloat(n) == Val("float", n)
JInt(n) == Val("int", n)
Missing == Val("missing", 0)          \* the key is absent
IsNumber(v) == v.t \in {"float", "int"}
\* A JSON value of an aggregate field: its type tag and, for an object, its entries.
Dict(m) == [t |-> "dict", m |-> m]
NotDict(tag, keys) == [t |-> tag, m |-> [k \in keys |-> Missing]]
EmptyDict(keys) == Dict([k \in keys |-> Missing])

\* the default structure of _initialize_storage and _read_data
DefaultData ==
    [total_minutes |-> JFloat(0),
     successful_minutes |-> JFloat(0),
     failed_attempts |-> JInt(0),
     daily_aggregate |-> EmptyDict(Days),
     weekly_aggregate |-> EmptyDict(Weeks)]

\* File contents.  kind: "none" no file; "json" a JSON object (data); "partial"
\* a document cut short or garbled; "badjson" text that is no JSON; "binary"
\* bytes that do not decode; "nonobject" valid JSON that is no object.
NoFile == [kind |-> "none", data |-> DefaultData]
Content(kind) == [kind |-> kind, data |-> DefaultData]
\* json.dump(data, f, indent=2): the document that holds data
JsonDump(data) == [kind |-> "json", data |-> data]

\* The try block of _read_data on a file: "ok", or the exception raised by
\* open (no file), json.load (no JSON text; bytes that do not decode raise
\* UnicodeDecodeError, which is no JSONDecodeError) or _validate_data_structure
\* (item assignment on a value that is no dict).
LoadOutcome(f) ==
    CASE f.kind = "none" -> "FileNotFoundError"
      [] f.kind = "json" -> "ok"
      [] f.kind = "nonobject" -> "TypeError"
      [] f.kind \in {"partial", "badjson"} -> "JSONDecodeError"
      [] OTHER -> "UnicodeDecodeError"

\* _validate_data_structure, one scalar field
ValidateMinutes(v) ==
    IF v.t = "missing" THEN JFloat(0)
    ELSE IF IsNumber(v) THEN v ELSE JFloat(0)
ValidateAttempts(v) ==
    IF v.t = "missing" THEN JInt(0)
    ELSE IF v.t = "int" THEN v ELSE JInt(0)
ValidateAggregate(a, keys) ==
    IF a.t = "dict" THEN a ELSE EmptyDict(keys)

\* _validate_data_structure: defaults for missing fields, resets for wrong types
ValidateDataStructure(data) ==
    [total_minutes |-> ValidateMinutes(data.total_minutes),
     successful_minutes |-> ValidateMinutes(data.successful_minutes),
     failed_attempts |-> ValidateAttempts(data.failed_attempts),
     daily_aggregate |-> ValidateAggregate(data.daily_aggregate, Days),
     weekly_aggregate |-> ValidateAggregate(data.weekly_aggregate, Weeks)]

\* float(d.get(key, 0)) on an aggregate entry raises for a null or a
\* non-numeric string
EntryRaises(v) == v.t \notin {"missing", "float", "int"}
EntryValue(v) == IF IsNumber(v) THEN v.n ELSE 0

\* round(x, 2): hundredths of a minute from sixtieths (no ties occur)
Round2(n) == (10 * n + 3) \div 6

\* Money.  The unrounded cost is kept in ten-thousandths of a dollar, the
\* displayed cost f"${estimated_cost:.2f}" in cents.  When the unrounded cost
\* lies exactly between two cents the binary product decides which one is
\* printed; the totals the cost properties are checked on are no such ties.
\* COST_PER_MINUTE = 0.006
CostPerMinute == 60
\* the rate taken per second rather than per minute, at which 600 s would
\* print as "$3.60"
UnroundedCostPerSecond(n) == n * CostPerMinute
\* total_minutes * self.COST_PER_MINUTE, of a total in sixtieths of a minute
UnroundedCost(n) == (n * CostPerMinute) \div 60
\* CostCents that cuts the cost off at the cent
CostCentsTruncated(n) == UnroundedCost(n) \div 100
\* f"${estimated_cost:.2f}"
CostCents(n) == (UnroundedCost(n) + 50) \div 100

\* _format_stats raises when today's entries are not numbers
FormatRaises(data, day) ==
    \/ EntryRaises(data.daily_aggregate.m[DayKey(day)])
    \/ EntryRaises(data.weekly_aggregate.m[WeekKey(day)])

\* _format_stats
FormatStats(data, day) ==
    [total_minutes |-> Round2(data.total_minutes.n),
     successful_minutes |-> Round2(data.successful_minutes.n),
     failed_attempts |-> data.failed_attempts.n,
     daily_minutes |-> Round2(EntryValue(data.daily_aggregate.m[DayKey(day)])),
     weekly_minutes |-> Round2(EntryValue(data.weekly_aggregate.m[WeekKey(day)])),
     estimated_cost |-> CostCents(data.total_minutes.n),
     error |-> FALSE]

\* the dictionary get_usage_stats returns from its except branch
ErrorStats ==
    [total_minutes |-> 0, successful_minutes |-> 0, failed_attempts |-> 0,
     daily_minutes |-> 0, weekly_minutes |-> 0, estimated_cost |-> 0,
     error |-> TRUE]

\* ------------------------------------------------------------------- state
VARIABLES
    file,        \* the content of storage_path
    tmp,         \* the content of storage_path + ".tmp"
    backups,     \* the contents renamed aside under a backup name
    now,         \* the clock: today's day number
    diskFull,    \* the device has no space left: writes raise OSError 28
    lock,        \* lock[i]: the thread holding self._lock of instance i, or 0
    handle,      \* handle[t]: the UsageTracker instance thread t calls through
    frame,       \* frame[t]: where thread t is inside the ledger, and its locals
    calls,       \* the calls made so far
    issued,      \* the seconds passed in track_audio_duration calls with d > 0
    returned     \* the last call that returned: its arguments, the day key it
                 \* used, its result and the day of it, the storage file when
                 \* it took the lock and when it returned, and the result and
                 \* day of the call that returned before it

\* the recognition path (src/SokhanNegar.py, src/whisper_api.py)
VARIABLES
    is_listening,     \* self.is_listening
    audio_queue,      \* self.audio_queue: the segments captured and not yet taken
    captured,         \* the segments captured so far
    worker,           \* worker[t]: where thread t is in process_audio_queue or
                      \* whisper_recognize, and its locals
    transcript,       \* the add_text calls made: segment, text, confidence, service
    current_service,  \* self.current_service
    status,           \* the text of self.status_label
    finished,         \* the segment a worker finished last, and what was done for it
    producer,         \* producer[t]: where the listen_continuously thread started
                      \* together with worker t is
    closing,          \* "open"; "closing" once on_closing ran; "exited", or
                      \* "exited_in_write", once the process is gone
    stopped,          \* the threads that were running when stop_listening was called
    late,             \* those of them that began a new window or took a new segment
    taken             \* the identities of the segments taken from audio_queue

\* the application object and the module-level ledger instance
VARIABLES
    catalog,          \* what is at 'dsm5_terminology.json'
    app,              \* "unbuilt"; "built" once SokhanNegarLive() returned;
                      \* "failed" once it raised
    speech_contexts,  \* self.speech_contexts
    tracker_instance, \* usage_tracker._tracker_instance: an instance, or 0 for None
    getter            \* getter[t]: where thread t is inside get_tracker

sessionVars == <<producer, closing, stopped, late, taken>>

appVars == <<catalog, app, speech_contexts, tracker_instance, getter>>

pipeVars == <<is_listening, audio_queue, captured, worker, transcript,
              current_service, status, finished, sessionVars, appVars>>

vars == <<file, tmp, backups, now, diskFull, lock, handle, frame, calls, issued, returned,
          pipeVars>>

IdleFrame ==
    [pc |-> "idle", op |-> "none", fn |-> "none", duration_seconds |-> 0,
     success |-> FALSE, period |-> "none", data |-> DefaultData, ret |-> "none",
     day_key |-> 0, fd |-> "none", before |-> NoFile, threshold_cost |-> 0]

NoCall ==
    [op |-> "none", thread |-> 0, duration_seconds |-> 0, success |-> FALSE,
     period |-> "none", day_key |-> 0, stats |-> ErrorStats, day |-> 0,
     before |-> NoFile,
     after |-> NoFile, prevStats |-> ErrorStats, prevDay |-> 0,
     threshold_cost |-> 0, warning |-> <<FALSE, 0>>]

\* a constructor (and the first query through the new object) is running
Constructing == \E u \in Threads : frame[u].op = "reload"
AllIdle == \A u \in Threads : frame[u].pc = "idle"

\* where a method continues when _read_data returns
AfterRead(fn) == IF fn = "get_usage_stats" THEN "return" ELSE "update"

\* TrackCall without the test of line 251: every duration is tracked
TrackCallNoGuard(t, d, s) ==
    /\ frame[t].pc = "idle"
    /\ calls < MaxCalls
    /\ ~Constructing
    /\ frame' = [frame EXCEPT ![t] =
                   [IdleFrame EXCEPT !.pc = "acquire",
                                     !.op = "track_audio_duration",
                                     !.fn = "track_audio_duration",
                                     !.duration_seconds = d,
                                     !.success = s]]
    /\ calls' = calls + 1
    /\ issued' = issued + (IF d > 0 THEN d ELSE 0)
    /\ UNCHANGED <<file, tmp, backups, now, diskFull, lock, handle, returned, pipeVars>>

\* ------------------------------------------------------------ the methods
\* track_audio_duration(duration_seconds, success), lines 251-255: a duration
\* <= 0 returns get_usage_stats(); otherwise the method goes for its lock
TrackCall(t, d, s) ==
    /\ frame[t].pc = "idle"
    /\ calls < MaxCalls
    /\ ~Constructing
    /\ frame' = [frame EXCEPT ![t] =
                   [IdleFrame EXCEPT !.pc = "acquire",
                                     !.op = "track_audio_duration",
                                     !.fn = IF d <= 0 THEN "get_usage_stats"
                                                      ELSE "track_audio_duration",
                                     !.duration_seconds = d,
                                     !.success = s]]
    /\ calls' = calls + 1
    /\ issued' = issued + (IF d > 0 THEN d ELSE 0)
    /\ UNCHANGED <<file, tmp, backups, now, diskFull, lock, handle, returned, pipeVars>>

\* get_usage_stats(), line 301
GetStatsCall(t) ==
    /\ frame[t].pc = "idle"
    /\ calls < MaxCalls
    /\ ~Constructing
    /\ frame' = [frame EXCEPT ![t] =
                   [IdleFrame EXCEPT !.pc = "acquire", !.op = "get_usage_stats",
                                     !.fn = "get_usage_stats"]]
    /\ calls' = calls + 1
    /\ UNCHANGED <<file, tmp, backups, now, diskFull, lock, handle, issued, returned, pipeVars>>

\* get_cost_warning(threshold_cost), line 412: stats = self.get_usage_stats()
CostWarningCall(t, threshold_cost) ==
    /\ frame[t].pc = "idle"
    /\ calls < MaxCalls
    /\ ~Constructing
    /\ frame' = [frame EXCEPT ![t] =
                   [IdleFrame EXCEPT !.pc = "acquire", !.op = "get_cost_warning",
                                     !.fn = "get_usage_stats",
                                     !.threshold_cost = threshold_cost]]
    /\ calls' = calls + 1
    /\ UNCHANGED <<file, tmp, backups, now, diskFull, lock, handle, issued, returned, pipeVars>>

\* reset_usage(period), line 362
ResetCall(t, p) ==
    /\ frame[t].pc = "idle"
    /\ calls < MaxCalls
    /\ ~Constructing
    /\ frame' = [frame EXCEPT ![t] =
                   [IdleFrame EXCEPT !.pc = "acquire", !.op = "reset_usage",
                                     !.fn = "reset_usage", !.period = p]]
    /\ calls' = calls + 1
    /\ UNCHANGED <<file, tmp, backups, now, diskFull, lock, handle, issued, returned, pipeVars>>

\* AcquireLock without mutual exclusion: the lock is taken whoever holds it
AcquireLockNoExclusion(t) ==
    /\ frame[t].pc = "acquire"
    /\ lock' = [lock EXCEPT ![handle[t]] = t]
    /\ frame' = [frame EXCEPT ![t].pc = "read", ![t].before = file]
    /\ UNCHANGED <<file, tmp, backups, now, diskFull, handle, calls, issued, returned, pipeVars>>

\* "with self._lock:" of the three methods.  threading.Lock is not reentrant:
\* a thread that holds the lock and comes here again waits for itself.
AcquireLock(t) ==
    /\ frame[t].pc = "acquire"
    /\ lock[handle[t]] = 0
    /\ lock' = [lock EXCEPT ![handle[t]] = t]
    /\ frame' = [frame EXCEPT ![t].pc = "read", ![t].before = file]
    /\ UNCHANGED <<file, tmp, backups, now, diskFull, handle, calls, issued, returned, pipeVars>>

\* _read_data, lines 84-133: the try block and the choice of the except branch
ReadData(t) ==
    /\ frame[t].pc = "read"
    /\ LET outcome == LoadOutcome(file)
           next == AfterRead(frame[t].fn)
       IN  frame' = [frame EXCEPT ![t] =
             CASE outcome = "ok" ->
                    [@ EXCEPT !.data = ValidateDataStructure(file.data), !.pc = next]
               [] outcome = "FileNotFoundError" ->
                    [@ EXCEPT !.data = DefaultData, !.pc = "w_open", !.ret = next]
               [] outcome = "JSONDecodeError" ->
                    [@ EXCEPT !.data = DefaultData, !.pc = "backup", !.ret = next]
               [] OTHER ->
                    [@ EXCEPT !.data = DefaultData, !.pc = next]]
    /\ UNCHANGED <<file, tmp, backups, now, diskFull, lock, handle, calls, issued, returned, pipeVars>>

\* _backup_corrupted_file, lines 200-209, then _write_data(default_data)
BackupCorruptedFile(t) ==
    /\ frame[t].pc = "backup"
    /\ IF file.kind # "none"
       THEN /\ backups' = backups \cup {file}
            /\ file' = NoFile
       ELSE UNCHANGED <<file, backups>>
    /\ frame' = [u \in Threads |->
                   IF u = t THEN [frame[u] EXCEPT !.pc = "w_open"]
                   ELSE IF frame[u].fd = "file" /\ file.kind # "none"
                        THEN [frame[u] EXCEPT !.fd = "gone"]
                        ELSE frame[u]]
    /\ UNCHANGED <<tmp, now, diskFull, lock, handle, calls, issued, returned, pipeVars>>

\* WriteOpen on storage_path itself: the document is written in place
WriteOpenInPlace(t) ==
    /\ frame[t].pc = "w_open"
    /\ file' = Content("partial")
    /\ frame' = [frame EXCEPT ![t].pc = "w_dump", ![t].fd = "file"]
    /\ UNCHANGED <<tmp, backups, now, diskFull, lock, handle, calls, issued, returned, pipeVars>>

\* _write_data, lines 148-149: open(temp_path, 'w') creates the temporary file
\* or truncates the one that is there; creating one on a full device raises
\* OSError, which _write_data logs and swallows
WriteOpen(t) ==
    /\ frame[t].pc = "w_open"
    /\ IF diskFull /\ tmp.kind = "none"
       THEN /\ frame' = [frame EXCEPT ![t].pc = frame[t].ret]
            /\ UNCHANGED tmp
       ELSE /\ tmp' = Content("partial")
            /\ frame' = [frame EXCEPT ![t].pc = "w_dump", ![t].fd = "tmp"]
    /\ UNCHANGED <<file, backups, now, diskFull, lock, handle, calls, issued, returned, pipeVars>>

\* another thread has the same file open for writing
SharedFd(t) ==
    \E u \in Threads \ {t} : frame[u].fd = frame[t].fd

\* what the open file holds once json.dump and close have run: the document;
\* a cut one when the device is full; either when two writers share the file
DumpContents(t) ==
    IF diskFull THEN {Content("partial")}
    ELSE IF SharedFd(t) THEN {JsonDump(frame[t].data), Content("partial")}
    ELSE {JsonDump(frame[t].data)}

\* _write_data, lines 149-150: json.dump into the open file and close it.  The
\* file written is the one that was opened, wherever a rename has put it since.
WriteDump(t) ==
    /\ frame[t].pc = "w_dump"
    /\ \E c \in DumpContents(t) :
         /\ tmp' = IF frame[t].fd = "tmp" THEN c ELSE tmp
         /\ file' = IF frame[t].fd = "file" THEN c ELSE file
    /\ frame' = [frame EXCEPT ![t].fd = "none",
                              ![t].pc = IF diskFull THEN frame[t].ret ELSE "w_replace"]
    /\ UNCHANGED <<backups, now, diskFull, lock, handle, calls, issued, returned, pipeVars>>

\* _write_data, line 153: os.replace(temp_path, storage_path); with no temporary
\* file it raises FileNotFoundError, an OSError, which is swallowed
WriteReplace(t) ==
    /\ frame[t].pc = "w_replace"
    /\ IF tmp.kind = "none"
       THEN /\ frame' = [frame EXCEPT ![t].pc = frame[t].ret]
            /\ UNCHANGED <<file, tmp>>
       ELSE /\ file' = tmp
            /\ tmp' = NoFile
            /\ frame' = [u \in Threads |->
                           IF u = t THEN [frame[u] EXCEPT !.pc = frame[u].ret]
                           ELSE IF frame[u].fd = "tmp" THEN [frame[u] EXCEPT !.fd = "file"]
                           ELSE IF frame[u].fd = "file" THEN [frame[u] EXCEPT !.fd = "gone"]
                           ELSE frame[u]]
    /\ UNCHANGED <<backups, now, diskFull, lock, handle, calls, issued, returned, pipeVars>>

\* track_audio_duration, lines 273 and 279: float() of today's entries raises
TrackRaises(data, day) ==
    \/ EntryRaises(data.daily_aggregate.m[DayKey(day)])
    \/ EntryRaises(data.weekly_aggregate.m[WeekKey(day)])

\* TrackedData that counts a failed attempt's minutes as successful ones too
TrackedDataIgnoringSuccess(data, d, s, day) ==
    [total_minutes |-> JFloat(data.total_minutes.n + d),
     successful_minutes |-> JFloat(data.successful_minutes.n + d),
     failed_attempts |->
         IF s THEN data.failed_attempts ELSE JInt(data.failed_attempts.n + 1),
     daily_aggregate |->
         Dict([data.daily_aggregate.m EXCEPT
                 ![DayKey(day)] = JFloat(EntryValue(@) + d)]),
     weekly_aggregate |->
         Dict([data.weekly_aggregate.m EXCEPT
                 ![WeekKey(day)] = JFloat(EntryValue(@) + d)])]

\* track_audio_duration, lines 258-279: the dictionary after the update
TrackedData(data, d, s, day) ==
    [total_minutes |-> JFloat(data.total_minutes.n + d),
     successful_minutes |->
         IF s THEN JFloat(data.successful_minutes.n + d) ELSE data.successful_minutes,
     failed_attempts |->
         IF s THEN data.failed_attempts ELSE JInt(data.failed_attempts.n + 1),
     daily_aggregate |->
         Dict([data.daily_aggregate.m EXCEPT
                 ![DayKey(day)] = JFloat(EntryValue(@) + d)]),
     weekly_aggregate |->
         Dict([data.weekly_aggregate.m EXCEPT
                 ![WeekKey(day)] = JFloat(EntryValue(@) + d)])]

\* track_audio_duration, lines 256-285 and 290-292: update the dictionary and
\* write it; an exception is caught inside "with self._lock" and answered with
\* self.get_usage_stats(), which goes for the lock this thread holds
TrackUpdate(t) ==
    /\ frame[t].pc = "update"
    /\ frame[t].fn = "track_audio_duration"
    /\ frame' = [frame EXCEPT ![t] =
         IF TrackRaises(frame[t].data, now)
         THEN [@ EXCEPT !.pc = "acquire", !.fn = "get_usage_stats"]
         ELSE [@ EXCEPT !.data = TrackedData(@, frame[t].duration_seconds,
                                             frame[t].success, now),
                        !.day_key = DayKey(now),
                        !.pc = "w_open", !.ret = "return"]]
    /\ UNCHANGED <<file, tmp, backups, now, diskFull, lock, handle, calls, issued, returned, pipeVars>>

\* reset_usage, lines 369-370 and 377-378: the subtraction raises when the
\* entry is no number
ResetRaises(data, period, day) ==
    \/ period = "daily" /\ EntryRaises(data.daily_aggregate.m[DayKey(day)])
    \/ period = "weekly" /\ EntryRaises(data.weekly_aggregate.m[WeekKey(day)])

\* reset_usage, lines 366-388: the dictionary after the reset
ResetData(data, period, day) ==
    CASE period = "daily" ->
           IF data.daily_aggregate.m[DayKey(day)].t = "missing" THEN data
           ELSE [data EXCEPT
                   !.total_minutes =
                       JFloat(@.n - data.daily_aggregate.m[DayKey(day)].n),
                   !.daily_aggregate.m[DayKey(day)] = JFloat(0)]
      [] period = "weekly" ->
           IF data.weekly_aggregate.m[WeekKey(day)].t = "missing" THEN data
           ELSE [data EXCEPT
                   !.total_minutes =
                       JFloat(@.n - data.weekly_aggregate.m[WeekKey(day)].n),
                   !.weekly_aggregate.m[WeekKey(day)] = JFloat(0)]
      [] OTHER -> DefaultData

\* reset_usage, lines 363-400: an unknown period returns self.get_usage_stats()
\* from inside "with self._lock", and so does the except branch
ResetUpdate(t) ==
    /\ frame[t].pc = "update"
    /\ frame[t].fn = "reset_usage"
    /\ frame' = [frame EXCEPT ![t] =
         IF \/ frame[t].period \notin {"daily", "weekly", "all"}
            \/ ResetRaises(frame[t].data, frame[t].period, now)
         THEN [@ EXCEPT !.pc = "acquire", !.fn = "get_usage_stats"]
         ELSE [@ EXCEPT !.data = ResetData(@, frame[t].period, now),
                        !.pc = "w_open", !.ret = "return"]]
    /\ UNCHANGED <<file, tmp, backups, now, diskFull, lock, handle, calls, issued, returned, pipeVars>>

\* what a method hands back from its dictionary: _format_stats(data), or in
\* get_usage_stats, when that raises, the all-zero dictionary with "error"
Snapshot(data, day) ==
    IF FormatRaises(data, day) THEN ErrorStats ELSE FormatStats(data, day)

\* get_cost_warning, lines 412-416: the cost is read back from the string of
\* the snapshot, in cents, and compared with the threshold
CostWarning(stats, threshold_cost) ==
    <<stats.estimated_cost * 100 > threshold_cost, stats.estimated_cost>>

\* the return statements, lines 288, 304-315 and 396: format the dictionary,
\* leave the with block (which releases the lock) and return.  When
\* _format_stats raises in track_audio_duration or reset_usage the except
\* branch calls self.get_usage_stats() with the lock still held.
Return(t) ==
    /\ frame[t].pc = "return"
    /\ IF frame[t].fn # "get_usage_stats" /\ FormatRaises(frame[t].data, now)
       THEN /\ frame' = [frame EXCEPT ![t].pc = "acquire", ![t].fn = "get_usage_stats"]
            /\ UNCHANGED <<lock, returned>>
       ELSE /\ frame' = [frame EXCEPT ![t] = IdleFrame]
            /\ lock' = [lock EXCEPT ![handle[t]] = 0]
            /\ returned' =
                 [op |-> frame[t].op, thread |-> t,
                  duration_seconds |-> frame[t].duration_seconds,
                  success |-> frame[t].success, period |-> frame[t].period,
                  day_key |-> frame[t].day_key,
                  stats |-> Snapshot(frame[t].data, now), day |-> now,
                  before |-> frame[t].before, after |-> file,
                  prevStats |-> returned.stats, prevDay |-> returned.day,
                  threshold_cost |-> frame[t].threshold_cost,
                  warning |-> CostWarning(Snapshot(frame[t].data, now),
                                          frame[t].threshold_cost)]
    /\ UNCHANGED <<file, tmp, backups, now, diskFull, handle, calls, issued, pipeVars>>

\* UsageTracker(storage_path) followed by get_usage_stats() on the new object,
\* as a restarted session does (SokhanNegar.__init__): it runs before any other
\* thread uses the ledger
ReloadCall(t) ==
    /\ AllIdle
    /\ calls < MaxCalls
    /\ frame' = [frame EXCEPT ![t] =
                   [IdleFrame EXCEPT !.pc = "init", !.op = "reload",
                                     !.fn = "get_usage_stats"]]
    /\ calls' = calls + 1
    /\ UNCHANGED <<file, tmp, backups, now, diskFull, lock, handle, issued, returned, pipeVars>>

\* InitializeStorage without the test of line 61: the defaults are always written
InitializeStorageAlways(t) ==
    /\ frame[t].pc = "init"
    /\ frame' = [frame EXCEPT ![t] =
         [@ EXCEPT !.data = DefaultData, !.pc = "w_open", !.ret = "acquire"]]
    /\ UNCHANGED <<file, tmp, backups, now, diskFull, lock, handle, calls, issued, returned, pipeVars>>

\* _initialize_storage, lines 61-71: write the default structure when there is
\* no file
InitializeStorage(t) ==
    /\ frame[t].pc = "init"
    /\ frame' = [frame EXCEPT ![t] =
         IF file.kind = "none"
         THEN [@ EXCEPT !.data = DefaultData, !.pc = "w_open", !.ret = "acquire"]
         ELSE [@ EXCEPT !.pc = "acquire"]]
    /\ UNCHANGED <<file, tmp, backups, now, diskFull, lock, handle, calls, issued, returned, pipeVars>>

\* ------------------------------------------------------- the environment
\* midnight: datetime.now() moves to the next day
Tick ==
    /\ now < MaxDay
    /\ now' = now + 1
    /\ UNCHANGED <<file, tmp, backups, diskFull, lock, handle, frame, calls, issued, returned, pipeVars>>

\* the process dies and is started again: threads, locks and open files are
\* gone, the file system stays
Crash ==
    /\ ~AllIdle
    /\ frame' = [t \in Threads |-> IdleFrame]
    /\ lock' = [i \in Instances |-> 0]
    /\ UNCHANGED <<file, tmp, backups, now, diskFull, handle, calls, issued, returned, pipeVars>>

\* the device runs full, or space is freed
DiskChange ==
    /\ diskFull' = ~diskFull
    /\ UNCHANGED <<file, tmp, backups, now, lock, handle, frame, calls, issued, returned, pipeVars>>

\* ------------------------------------------------- the recognition path
\* src/SokhanNegar.py: listen_continuously captures windows of audio and puts
\* them on audio_queue; process_audio_queue takes them one at a time, asks
\* Google Speech Recognition and, when that gave no text, whisper_recognize
\* (src/whisper_api.py), which checks the signal, calls the OpenAI API, checks
\* the text and records the usage in the ledger.  Energies are integers, the
\* zero-crossing rate is in thousandths, confidences are in hundredths.  The
\* callbacks handed to root.after take effect at once.
MaxSegments == 2         \* the audio segments captured or passed in, in all
SegmentSeconds == 5      \* listen_continuously: duration = 5
SilenceFloor == 300      \* rms_energy < 300: "mostly silence"
SecondaryFloor == 500    \* rms_energy < 500: "better suited for Google"
NoiseCeiling == 300      \* zero_crossings > 0.3: "mostly noise"
LowConfidence == 70      \* CONFIDENCE_THRESHOLD_LOW = 0.70
ModerateConfidence == 90 \* CONFIDENCE_THRESHOLD_MODERATE = 0.90
DefaultConfidence == 50  \* parse_google_response: confidence = 0.5
Absent == -1             \* None, or a local that is not bound

\* the thread start_listening creates for process_audio_queue
Consumer == 1

\* the signals the microphone delivers: energy and zero-crossing rate
Signals ==
    {[rms |-> 50, zcr |-> 100],
     [rms |-> SilenceFloor, zcr |-> 100],
     [rms |-> SecondaryFloor, zcr |-> NoiseCeiling],
     [rms |-> SecondaryFloor, zcr |-> NoiseCeiling + 1]}

\* sr.AudioData(audio_data.tobytes(), fs, 2) of line 309: 16-bit samples
AudioData(n, sig, w) ==
    [id |-> n, rms |-> sig.rms, zcr |-> sig.zcr, whole |-> w,
     seconds |-> SegmentSeconds]
NoAudio == AudioData(0, [rms |-> 0, zcr |-> 0], TRUE)

\* the AudioData objects a caller of whisper_recognize can pass: sample_width
\* may be 1 or 3, and then frame_data need not be a whole number of int16
\* samples
AudioInputs ==
    {AudioData(0, sig, TRUE) : sig \in Signals}
        \cup {AudioData(0, [rms |-> 50, zcr |-> 100], FALSE)}

\* ---- characters and texts
PersianLetters == {"alef", "be", "sin", "lam", "mim"}
LatinLetters == {"a", "b", "c"}
\* c.isalpha()
IsAlpha(c) == c \in PersianLetters \cup LatinLetters
\* '\u0600' <= c <= '\u06FF'
IsPersian(c) == c \in PersianLetters

RECURSIVE LStrip(_)
LStrip(s) == IF s # <<>> /\ Head(s) = " " THEN LStrip(Tail(s)) ELSE s
RECURSIVE RStrip(_)
RStrip(s) ==
    IF s # <<>> /\ s[Len(s)] = " " THEN RStrip(SubSeq(s, 1, Len(s) - 1)) ELSE s
\* str.strip()
Strip(s) == RStrip(LStrip(s))

PersianChars(s) == Cardinality({i \in 1..Len(s) : IsPersian(s[i])})
TotalAlpha(s) == Cardinality({i \in 1..Len(s) : IsAlpha(s[i])})
\* len(set(transcribed_text.replace(' ', '')))
UniqueChars(s) == Cardinality({s[i] : i \in 1..Len(s)} \ {" "})

\* whisper_recognize, lines 157-181, on the stripped text: the ValueError the
\* validation raises, or "none"
ValidationError(s) ==
    IF s = <<>> THEN "none"
    ELSE IF Len(s) < 2 THEN "too short"
    ELSE IF TotalAlpha(s) > 0 /\ 2 * PersianChars(s) < TotalAlpha(s) THEN "gibberish"
    ELSE IF Len(s) <= 10 /\ UniqueChars(s) <= 3 THEN "noise"
    ELSE "none"

Salam == <<"sin", "lam", "alef", "mim">>
\* the texts the OpenAI API answers with
WhisperTexts ==
    {<<>>, <<" ">>, <<"alef">>, <<"a", "b", "c">>, <<"sin", "lam", "alef">>,
     <<"sin", "lam", "a", "b">>, <<" ">> \o Salam \o <<" ">>,
     <<"be", "alef", "be", "alef", " ", "be", "alef", "be", "alef", " ", "be">>}

\* the ways the try block of whisper_recognize ends otherwise: the exceptions
\* of the API call, and ValueError from _audio_data_to_wav before the call
PaidErrors ==
    {"AuthenticationError", "RateLimitError", "APIError", "timeout",
     "ConnectionError", "ValueError", "Exception"}
PaidOutcomes ==
    {[kind |-> "text", text |-> x] : x \in WhisperTexts}
        \cup {[kind |-> k, text |-> <<>>] : k \in PaidErrors}

\* what recognize_google(..., show_all=True) does: it returns a list of
\* alternatives, an empty result, or raises
GoogleResponse(k, x, c) == [kind |-> k, transcript |-> x, confidence |-> c]
GoogleResponses ==
    {GoogleResponse("list", Salam, c) : c \in {Absent, 60, 95}}
        \cup {GoogleResponse("list", <<>>, 95)}
        \cup {GoogleResponse(k, <<>>, Absent) :
                k \in {"empty", "UnknownValueError", "RequestError", "TypeError",
                       "Exception"}}

\* a value of the local text: None or a string
NoneText == [none |-> TRUE, s |-> <<>>]
Str(s) == [none |-> FALSE, s |-> s]

\* parse_google_response, lines 570-596
ParseGoogleResponse(resp) ==
    IF resp.kind = "list"
    THEN [text |-> resp.transcript,
          confidence |-> IF resp.confidence = Absent THEN DefaultConfidence
                         ELSE IF resp.confidence > 100 THEN 100
                         ELSE IF resp.confidence < 0 THEN 0
                         ELSE resp.confidence]
    ELSE [text |-> <<>>, confidence |-> 0]

\* whisper_recognize, lines 99-131: the check of the signal.  np.frombuffer
\* raises on a buffer that is no whole number of int16 samples; that
\* exception is logged and the function goes on to the API call.
GateVerdictInclusive(audio) ==
    IF ~audio.whole THEN "unchecked"
    ELSE IF audio.rms <= SilenceFloor THEN "silence"
    ELSE IF audio.rms <= SecondaryFloor THEN "google"
    ELSE IF audio.zcr >= NoiseCeiling THEN "noise"
    ELSE "passed"

GateVerdict(audio) ==
    IF ~audio.whole THEN "unchecked"
    ELSE IF audio.rms < SilenceFloor THEN "silence"
    ELSE IF audio.rms < SecondaryFloor THEN "google"
    ELSE IF audio.zcr > NoiseCeiling THEN "noise"
    ELSE "passed"

NoResult == [kind |-> "none", exc |-> "none", text |-> <<>>]

\* the locals of a thread in process_audio_queue or whisper_recognize
OffFrame ==
    [pc |-> "off", loop |-> FALSE, audio |-> NoAudio, text |-> NoneText,
     service_used |-> "None", confidence |-> Absent, log |-> <<>>,
     google |-> "none", reported |-> Absent, low_logged |-> FALSE, verdict |-> "none",
     paid |-> "none", paid_text |-> <<>>, result |-> NoResult,
     before |-> NoFile]

\* back at the top of the while loop of process_audio_queue: the local
\* confidence keeps the value it has
PollFrame(w) == [OffFrame EXCEPT !.pc = "poll", !.loop = TRUE,
                                 !.confidence = w.confidence]

NoSegment ==
    [seg |-> NoAudio, thread |-> 0, loop |-> FALSE, log |-> <<>>,
     google |-> "none", reported |-> Absent, low_logged |-> FALSE, verdict |-> "none",
     paid |-> "none", paid_text |-> <<>>, result |-> NoResult,
     emitted |-> FALSE, before |-> NoFile, after |-> NoFile]

\* what is kept of a segment when the thread is done with it
Finished(t, w, shown) ==
    [seg |-> w.audio, thread |-> t, loop |-> w.loop, log |-> w.log,
     google |-> w.google, reported |-> w.reported, low_logged |-> w.low_logged, verdict |-> w.verdict,
     paid |-> w.paid, paid_text |-> w.paid_text, result |-> w.result,
     emitted |-> shown, before |-> w.before, after |-> file]

\* the state of the recognition path after SokhanNegarLive.__init__
PipeInit ==
    /\ is_listening = FALSE
    /\ audio_queue = <<>>
    /\ captured = 0
    /\ worker = [t \in Threads |-> OffFrame]
    /\ transcript = <<>>
    /\ current_service = "Google Speech"
    /\ status = "idle"
    /\ finished = NoSegment
    /\ producer = [t \in Threads |-> "off"]
    /\ closing = "open"
    /\ stopped = {}
    /\ late = {}
    /\ taken = <<>>

\* ------------------------------------------------ the application object
\* what can be at 'dsm5_terminology.json': no file, a file that is no JSON, a
\* catalogue without a term, a catalogue with terms (terms are numbered in
\* their sort order; a term can be listed twice)
NoCatalog == [kind |-> "absent", terms |-> <<>>]
Catalogs ==
    {NoCatalog, [kind |-> "badjson", terms |-> <<>>],
     [kind |-> "json", terms |-> <<>>], [kind |-> "json", terms |-> <<2, 1, 2>>]}

\* max_hints=500
MaxHints == 500

RECURSIVE Sorted(_)
\* sorted(phrase_dict.values())
Sorted(S) ==
    IF S = {} THEN <<>>
    ELSE LET m == CHOOSE x \in S : \A y \in S : x <= y
         IN  <<m>> \o Sorted(S \ {m})

\* _extract_terminology_phrases, lines 668-737: the terms without repetition,
\* sorted, at most max_hints of them
ExtractTerminologyPhrases(terms) ==
    LET sorted_phrases == Sorted({terms[i] : i \in 1..Len(terms)})
    IN  IF Len(sorted_phrases) > MaxHints
        THEN SubSeq(sorted_phrases, 1, MaxHints)
        ELSE sorted_phrases

\* _load_dsm5_speech_hints, lines 618-666: [] when the file is absent, cannot
\* be parsed or holds no phrase
LoadDsm5SpeechHints(c) ==
    IF c.kind # "json" \/ ExtractTerminologyPhrases(c.terms) = <<>>
    THEN <<>>
    ELSE <<[phrases |-> ExtractTerminologyPhrases(c.terms), boost |-> 15]>>

\* the state after SokhanNegarLive() with a catalogue of terms in place
AppInit ==
    /\ catalog = [kind |-> "json", terms |-> <<2, 1, 2>>]
    /\ app = "built"
    /\ speech_contexts = LoadDsm5SpeechHints(catalog)
    /\ tracker_instance = 1
    /\ getter = [t \in Threads |-> "idle"]

\* SokhanNegarLive.__init__, lines 70-169, called by main, lines 743-752:
\* get_tracker() creates the ledger instance, the hints are loaded, and line
\* 156 logs len(self.speech_contexts[0].get('phrases', [])), which raises
\* IndexError on an empty list; main catches it, prints it and returns, so
\* mainloop is never entered.  Otherwise the window is built; the statistics
\* read for the log and the label (lines 166 and 169) change nothing.
Construct ==
    /\ app = "unbuilt"
    /\ tracker_instance' = IF tracker_instance = 0 THEN 1 ELSE tracker_instance
    /\ speech_contexts' = LoadDsm5SpeechHints(catalog)
    /\ app' = IF LoadDsm5SpeechHints(catalog) = <<>> THEN "failed" ELSE "built"
    /\ UNCHANGED <<file, tmp, backups, now, diskFull, lock, handle, frame, calls,
                   issued, returned, is_listening, audio_queue, captured, worker,
                   transcript, current_service, status, finished, sessionVars,
                   catalog, getter>>

\* get_tracker, lines 437-439, entered by a thread: the test of the global.
\* The thread that finds None goes on to create the instance.
GetTrackerTest(t) ==
    /\ getter[t] = "idle"
    /\ frame[t].pc = "idle"
    /\ getter' = [getter EXCEPT ![t] =
                    IF tracker_instance = 0 THEN "create" ELSE "done"]
    /\ handle' = [handle EXCEPT ![t] =
                    IF tracker_instance = 0 THEN @ ELSE tracker_instance]
    /\ UNCHANGED <<file, tmp, backups, now, diskFull, lock, frame, calls, issued,
                   returned, is_listening, audio_queue, captured, worker,
                   transcript, current_service, status, finished, sessionVars,
                   catalog, app, speech_contexts, tracker_instance>>

\* get_tracker, lines 438-439: UsageTracker(storage_path) is created, bound to
\* the global and returned (the instance is named after the thread that
\* created it; the storage file exists, so _initialize_storage writes nothing)
GetTrackerCreate(t) ==
    /\ getter[t] = "create"
    /\ tracker_instance' = t
    /\ handle' = [handle EXCEPT ![t] = t]
    /\ getter' = [getter EXCEPT ![t] = "done"]
    /\ UNCHANGED <<file, tmp, backups, now, diskFull, lock, frame, calls, issued,
                   returned, is_listening, audio_queue, captured, worker,
                   transcript, current_service, status, finished, sessionVars,
                   catalog, app, speech_contexts>>

\* tracker = get_tracker() followed by tracker.track_audio_duration(...), as
\* in whisper_recognize, lines 84 and 184
TrackThrough(t, d, s) ==
    /\ getter[t] = "done"
    /\ TrackCall(t, d, s)

\* the threads of a session: listen_thread and process_thread
ProducerOf(t) == <<"listen_continuously", t>>
ConsumerOf(t) == <<"process_audio_queue", t>>
\* the places for a new pair of threads
FreeThreads == {t \in Threads : worker[t].pc = "off" /\ producer[t] = "off"}

\* start_listening, lines 272-283
StartListening ==
    /\ app = "built"
    /\ ~is_listening
    /\ closing = "open"
    /\ FreeThreads # {}
    /\ LET t == CHOOSE x \in FreeThreads : \A y \in FreeThreads : x <= y
       IN  /\ worker' = [worker EXCEPT ![t] = PollFrame(OffFrame)]
           /\ producer' = [producer EXCEPT ![t] = "top"]
    /\ is_listening' = TRUE
    /\ status' = "listening"
    /\ UNCHANGED <<appVars, file, tmp, backups, now, diskFull, lock, handle, frame, calls,
                   issued, returned, audio_queue, captured, transcript,
                   current_service, finished, closing, stopped, late, taken>>

\* stop_listening, lines 285-291: the flag is cleared; the threads are neither
\* joined nor told apart from those of a later session
StopListening ==
    /\ is_listening
    /\ closing = "open"
    /\ is_listening' = FALSE
    /\ status' = "stopped"
    /\ stopped' = stopped \cup {ProducerOf(t) : t \in {u \in Threads : producer[u] # "off"}}
                          \cup {ConsumerOf(t) : t \in {u \in Threads : worker[u].loop}}
    /\ UNCHANGED <<appVars, file, tmp, backups, now, diskFull, lock, handle, frame, calls,
                   issued, returned, audio_queue, captured, worker, transcript,
                   current_service, finished, producer, closing, late, taken>>

\* on_closing, lines 550-552: the flag is cleared and the main thread sleeps
\* half a second
OnClosing ==
    /\ closing = "open"
    /\ closing' = "closing"
    /\ is_listening' = FALSE
    /\ UNCHANGED <<appVars, file, tmp, backups, now, diskFull, lock, handle, frame, calls,
                   issued, returned, audio_queue, captured, worker, transcript,
                   current_service, status, finished, producer, stopped, late,
                   taken>>

\* a thread is inside _write_data
WriteInFlight(t) == frame[t].pc \in {"w_open", "w_dump", "w_replace"}

\* on_closing, line 553, and run: root.destroy() ends mainloop and the process
\* exits; the threads are daemon threads (lines 278 and 282) and die with it,
\* wherever they are
ProcessExit ==
    /\ closing = "closing"
    /\ closing' = IF \E t \in Threads : WriteInFlight(t) THEN "exited_in_write"
                  ELSE "exited"
    /\ frame' = [t \in Threads |-> IdleFrame]
    /\ lock' = [i \in Instances |-> 0]
    /\ worker' = [t \in Threads |-> OffFrame]
    /\ producer' = [t \in Threads |-> "off"]
    /\ UNCHANGED <<appVars, file, tmp, backups, now, diskFull, handle, calls, issued,
                   returned, is_listening, audio_queue, captured, transcript,
                   current_service, status, finished, stopped, late, taken>>

\* listen_continuously, lines 297-301: the flag is tested and a window of
\* five seconds begins
BeginCapture(p) ==
    /\ producer[p] = "top"
    /\ is_listening
    /\ captured + Cardinality({u \in Threads : producer[u] = "recording"}) < MaxSegments
    /\ producer' = [producer EXCEPT ![p] = "recording"]
    /\ late' = IF ProducerOf(p) \in stopped THEN late \cup {ProducerOf(p)} ELSE late
    /\ UNCHANGED <<appVars, file, tmp, backups, now, diskFull, lock, handle, frame, calls,
                   issued, returned, is_listening, audio_queue, captured, worker,
                   transcript, current_service, status, finished, closing,
                   stopped, taken>>

\* listen_continuously, line 297: the flag is found cleared and the thread ends
ProducerExit(p) ==
    /\ producer[p] = "top"
    /\ ~is_listening
    /\ producer' = [producer EXCEPT ![p] = "off"]
    /\ stopped' = stopped \ {ProducerOf(p)}
    /\ late' = late \ {ProducerOf(p)}
    /\ UNCHANGED <<appVars, file, tmp, backups, now, diskFull, lock, handle, frame, calls,
                   issued, returned, is_listening, audio_queue, captured, worker,
                   transcript, current_service, status, finished, closing, taken>>

\* process_audio_queue, line 318: the flag is found cleared and the thread ends
ConsumerExit(t) ==
    /\ worker[t].pc = "poll"
    /\ ~is_listening
    /\ worker' = [worker EXCEPT ![t] = OffFrame]
    /\ stopped' = stopped \ {ConsumerOf(t)}
    /\ late' = late \ {ConsumerOf(t)}
    /\ UNCHANGED <<appVars, file, tmp, backups, now, diskFull, lock, handle, frame, calls,
                   issued, returned, is_listening, audio_queue, captured,
                   transcript, current_service, status, finished, producer,
                   closing, taken>>

\* listen_continuously, lines 300-311: the window ends and is queued, whatever
\* its energy and whatever the flag now says
Capture(p, sig) ==
    /\ producer[p] = "recording"
    /\ captured < MaxSegments
    /\ captured' = captured + 1
    /\ audio_queue' = Append(audio_queue, AudioData(captured + 1, sig, TRUE))
    /\ producer' = [producer EXCEPT ![p] = "top"]
    /\ UNCHANGED <<appVars, file, tmp, backups, now, diskFull, lock, handle, frame, calls,
                   issued, returned, is_listening, worker, transcript,
                   current_service, status, finished, closing, stopped, late,
                   taken>>

\* process_audio_queue, lines 318-325
Dequeue(t) ==
    /\ worker[t].pc = "poll"
    /\ is_listening
    /\ audio_queue # <<>>
    /\ audio_queue' = Tail(audio_queue)
    /\ status' = "processing"
    /\ worker' = [worker EXCEPT ![t] =
                    [@ EXCEPT !.pc = "google", !.audio = Head(audio_queue),
                              !.before = file]]
    /\ taken' = Append(taken, Head(audio_queue).id)
    /\ late' = IF ConsumerOf(t) \in stopped THEN late \cup {ConsumerOf(t)} ELSE late
    /\ UNCHANGED <<appVars, file, tmp, backups, now, diskFull, lock, handle, frame, calls,
                   issued, returned, is_listening, captured, transcript,
                   current_service, finished, producer, closing, stopped>>

\* NeedsFallback that never asks for the second service
NeedsFallbackNever(text) == FALSE

\* NeedsFallback that asks for the second service whatever Google answered
NeedsFallbackAlways(text) == TRUE

\* process_audio_queue, line 374: if text is None
NeedsFallback(text) == text.none

\* ConfidenceTag with the upper tier beginning above the threshold
ConfidenceTagStrict(c) ==
    IF c # Absent /\ 0 <= c /\ c <= 100
    THEN IF c > ModerateConfidence THEN "confidence_high"
         ELSE IF c >= LowConfidence THEN "confidence_moderate"
         ELSE "confidence_low"
    ELSE "none"

\* add_text, lines 443-460: the colour tag of the confidence indicator, or
\* "none" when no indicator is shown
ConfidenceTag(c) ==
    IF c # Absent /\ 0 <= c /\ c <= 100
    THEN IF c >= ModerateConfidence THEN "confidence_high"
         ELSE IF c >= LowConfidence THEN "confidence_moderate"
         ELSE "confidence_low"
    ELSE "none"

\* process_audio_queue, lines 408-416: the text is shown when it is not empty
Display(t, w) ==
    LET shown == ~w.text.none /\ w.text.s # <<>> /\ Strip(w.text.s) # <<>>
    IN  /\ transcript' =
              IF shown
              THEN Append(transcript,
                          [seg |-> w.audio.id, text |-> w.text.s,
                           confidence |-> w.confidence,
                           tag |-> ConfidenceTag(w.confidence),
                           service |-> w.service_used])
              ELSE transcript
        /\ status' = IF shown THEN "listening" ELSE status
        /\ worker' = [worker EXCEPT ![t] = PollFrame(w)]
        /\ finished' = Finished(t, w, shown)

\* process_audio_queue, lines 374-378 and 407-416: after the try block of the
\* Google call
AfterGoogle(t, w) ==
    IF NeedsFallback(w.text)
    THEN /\ worker' = [worker EXCEPT ![t] =
                         [w EXCEPT !.pc = "wr_gate",
                                   !.log = Append(w.log, "whisper_recognize")]]
         /\ UNCHANGED <<transcript, status, finished>>
    ELSE Display(t, w)

\* process_audio_queue, lines 327-371 and 420-422: what the answer of
\* recognize_google leads to
GoogleStep(t, w, resp) ==
    CASE resp.kind = "TypeError" /\ w.pc = "google" ->
           /\ worker' = [worker EXCEPT ![t] = [w EXCEPT !.pc = "google_retry"]]
           /\ UNCHANGED <<transcript, current_service, status, finished>>
      [] resp.kind \in {"UnknownValueError", "RequestError"} ->
           /\ AfterGoogle(t, [w EXCEPT !.google = resp.kind])
           /\ UNCHANGED current_service
      [] resp.kind \in {"list", "empty"} ->
           /\ LET p == ParseGoogleResponse(resp)
              IN  AfterGoogle(t, [w EXCEPT !.google = resp.kind,
                                           !.reported = resp.confidence,
                                           !.text = Str(p.text),
                                           !.confidence = p.confidence,
                                           !.service_used = "Google Speech",
                                           !.low_logged =
                                               /\ p.text # <<>>
                                               /\ p.confidence < LowConfidence])
           /\ current_service' = "Google Speech"
      [] OTHER ->
           /\ worker' = [worker EXCEPT ![t] = PollFrame(w)]
           /\ finished' = Finished(t, [w EXCEPT !.google = resp.kind], FALSE)
           /\ UNCHANGED <<transcript, current_service, status>>

\* the call of recognize_google with alternative_language_codes, line 337
Google(t, resp) ==
    /\ worker[t].pc = "google"
    /\ GoogleStep(t, [worker[t] EXCEPT !.log = Append(@, "google")], resp)
    /\ UNCHANGED <<appVars, file, tmp, backups, now, diskFull, lock, handle, sessionVars, frame, calls,
                   issued, returned, is_listening, audio_queue, captured>>

\* the call of recognize_google after a TypeError, line 350
GoogleRetry(t, resp) ==
    /\ worker[t].pc = "google_retry"
    /\ GoogleStep(t, [worker[t] EXCEPT !.log = Append(@, "google")], resp)
    /\ UNCHANGED <<appVars, file, tmp, backups, now, diskFull, lock, handle, sessionVars, frame, calls,
                   issued, returned, is_listening, audio_queue, captured>>

\* the call of recognize_google, line 337, when the server does not answer:
\* no timeout is passed and self.recognizer.operation_timeout is never set, so
\* the thread stays in the call.  (The call of the OpenAI API, whisper_api.py
\* line 149, passes timeout=30 and ends with the outcome "timeout".)
GoogleNoAnswer(t) ==
    /\ worker[t].pc = "google"
    /\ worker' = [worker EXCEPT ![t] =
                    [@ EXCEPT !.pc = "google_wait", !.log = Append(@, "google")]]
    /\ UNCHANGED <<appVars, file, tmp, backups, now, diskFull, lock, handle,
                   sessionVars, frame, calls, issued, returned, is_listening,
                   audio_queue, captured, transcript, current_service, status,
                   finished>>

\* whisper_recognize(audio_data) called by another caller than the consumer
RecognizeCall(t, audio) ==
    /\ ~is_listening
    /\ worker[t].pc = "off"
    /\ captured < MaxSegments
    /\ captured' = captured + 1
    /\ worker' = [worker EXCEPT ![t] =
                    [OffFrame EXCEPT !.pc = "wr_gate", !.audio = audio,
                                     !.log = <<"whisper_recognize">>,
                                     !.before = file]]
    /\ UNCHANGED <<appVars, file, tmp, backups, now, diskFull, lock, handle, sessionVars, frame, calls,
                   issued, returned, is_listening, audio_queue, transcript,
                   current_service, status, finished>>

\* where whisper_recognize returns or raises to: process_audio_queue, lines
\* 377-416, or the other caller
Resume(t, w) ==
    IF ~w.loop
    THEN /\ worker' = [worker EXCEPT ![t] = OffFrame]
         /\ finished' = Finished(t, w, FALSE)
         /\ UNCHANGED <<transcript, current_service, status>>
    ELSE IF w.result.kind = "raise"
    THEN /\ worker' = [worker EXCEPT ![t] = PollFrame(w)]
         /\ finished' = Finished(t, w, FALSE)
         /\ UNCHANGED <<transcript, current_service, status>>
    ELSE /\ current_service' = "Whisper API"
         /\ Display(t, [w EXCEPT !.text = Str(w.result.text),
                                 !.service_used = "Whisper API"])

Raise(exc) == [kind |-> "raise", exc |-> exc, text |-> <<>>]

\* whisper_recognize, lines 84-131: the duration and the check of the signal
WhisperGate(t) ==
    /\ worker[t].pc = "wr_gate"
    /\ LET v == GateVerdict(worker[t].audio)
           w == [worker[t] EXCEPT !.verdict = v]
       IN  IF v \in {"silence", "google", "noise"}
           THEN Resume(t, [w EXCEPT !.result = Raise("ValueError")])
           ELSE /\ worker' = [worker EXCEPT ![t] = [w EXCEPT !.pc = "wr_api"]]
                /\ UNCHANGED <<transcript, current_service, status, finished>>
    /\ UNCHANGED <<appVars, file, tmp, backups, now, diskFull, lock, handle, sessionVars, frame, calls,
                   issued, returned, is_listening, audio_queue, captured>>

\* PaidSuccess when every way out of the try block is tracked as a success
PaidSuccessAlways(outcome) == TRUE

\* whisper_recognize, lines 153-184: the try block reaches the success
\* tracking when the API answered and the validation raised nothing
PaidSuccess(outcome) ==
    outcome.kind = "text" /\ ValidationError(Strip(outcome.text)) = "none"

\* whisper_recognize, lines 191-237: the text returned, or the exception raised
\* by the except branch taken
PaidResult(outcome) ==
    IF PaidSuccess(outcome)
    THEN [kind |-> "return", exc |-> "none", text |-> Strip(outcome.text)]
    ELSE Raise(CASE outcome.kind = "text" -> "ValueError"
                 [] outcome.kind = "timeout" -> "socket.timeout"
                 [] OTHER -> outcome.kind)

\* the call tracker.track_audio_duration(audio_duration_seconds, success)
EnterTrack(d, s) ==
    [IdleFrame EXCEPT !.pc = "acquire", !.op = "track_audio_duration",
                      !.fn = IF d <= 0 THEN "get_usage_stats"
                                       ELSE "track_audio_duration",
                      !.duration_seconds = d, !.success = s]

\* whisper_recognize, lines 133-233: the WAV conversion, the API call, the
\* validation of the text and the call of the ledger
WhisperApi(t, outcome) ==
    /\ worker[t].pc = "wr_api"
    /\ frame[t].pc = "idle"
    /\ LET w == worker[t]
           d == w.audio.seconds
       IN  /\ worker' = [worker EXCEPT ![t] =
                [w EXCEPT !.pc = "wr_tracking",
                          !.paid = outcome.kind,
                          !.paid_text = outcome.text,
                          !.result = PaidResult(outcome),
                          !.log = w.log
                                    \o (IF outcome.kind = "ValueError"
                                        THEN <<>> ELSE <<"paid">>)
                                    \o <<"track">>]]
           /\ frame' = [frame EXCEPT ![t] = EnterTrack(d, PaidSuccess(outcome))]
           /\ calls' = calls + 1
           /\ issued' = issued + (IF d > 0 THEN d ELSE 0)
    /\ UNCHANGED <<appVars, file, tmp, backups, now, diskFull, lock, handle, sessionVars, returned,
                   is_listening, audio_queue, captured, transcript,
                   current_service, status, finished>>

\* track_audio_duration has returned: whisper_recognize returns the text or
\* raises
WhisperDone(t) ==
    /\ worker[t].pc = "wr_tracking"
    /\ frame[t].pc = "idle"
    /\ Resume(t, worker[t])
    /\ UNCHANGED <<appVars, file, tmp, backups, now, diskFull, lock, handle, sessionVars, frame, calls,
                   issued, returned, is_listening, audio_queue, captured>>

\* ------------------------------------------------------- specifications
\* the state of the ledger and of the recognition path after construction
InitBase ==
    /\ tmp = NoFile
    /\ backups = {}
    /\ now = FirstDay
    /\ diskFull = FALSE
    /\ lock = [i \in Instances |-> 0]
    /\ frame = [t \in Threads |-> IdleFrame]
    /\ calls = 0
    /\ issued = 0
    /\ returned = NoCall
    /\ PipeInit

\* the state after UsageTracker(storage_path) on a path with no file: the
\* default structure is stored; every thread uses that one instance
InitCommon ==
    /\ InitBase
    /\ AppInit

Init ==
    /\ InitCommon
    /\ file = JsonDump(DefaultData)
    /\ handle = [t \in Threads |-> 1]

\* the steps inside the methods
Steps(t) ==
    \/ AcquireLock(t)
    \/ ReadData(t)
    \/ WriteOpen(t)
    \/ WriteDump(t)
    \/ WriteReplace(t)
    \/ Return(t)

\* one ledger, its three public methods, a restart, the clock
Next ==
    \/ \E t \in Threads :
         \/ \E d \in Durations, s \in BOOLEAN : TrackCall(t, d, s)
         \/ GetStatsCall(t)
         \/ \E p \in Periods : ResetCall(t, p)
         \/ ReloadCall(t)
         \/ InitializeStorage(t)
         \/ TrackUpdate(t)
         \/ ResetUpdate(t)
         \/ Steps(t)
    \/ Tick

Spec == Init /\ [][Next]_vars

\* only track_audio_duration is called: the threads of the recognition path
NextTrack ==
    \/ \E t \in Threads :
         \/ \E d \in Durations, s \in BOOLEAN : TrackCall(t, d, s)
         \/ TrackUpdate(t)
         \/ Steps(t)
    \/ Tick

SpecTrack == Init /\ [][NextTrack]_vars

\* the ledger with a process that can die at any step
NextCrash ==
    \/ Next
    \/ Crash

SpecCrash == Init /\ [][NextCrash]_vars

\* the ledger on a device that can run full
NextDiskFull ==
    \/ Next
    \/ DiskChange

SpecDiskFull == Init /\ [][NextDiskFull]_vars

\* each thread calls through a UsageTracker of its own on the same storage_path
InitHandles ==
    /\ InitCommon
    /\ file = JsonDump(DefaultData)
    /\ handle = [t \in Threads |-> t]

SpecHandles == InitHandles /\ [][NextTrack]_vars

\* the usage data a storage file can hold when it was not written by the ledger:
\* every field present and valid, missing, or of a wrong type
LoadData ==
    [total_minutes : {Missing, JInt(600), Val("str", 0)},
     successful_minutes : {Missing, JFloat(300)},
     failed_attempts : {Missing, JInt(2), JFloat(2)},
     daily_aggregate :
         {NotDict("missing", Days), NotDict("list", Days),
          Dict([k \in Days |-> IF k = FirstDay THEN JFloat(600) ELSE Missing]),
          Dict([k \in Days |-> IF k = FirstDay THEN Val("str", 0) ELSE Missing])},
     weekly_aggregate :
         {NotDict("missing", Weeks),
          Dict([k \in Weeks |-> IF k = WeekKey(FirstDay) THEN JFloat(600) ELSE Missing]),
          Dict([k \in Weeks |-> IF k = WeekKey(FirstDay) THEN Val("null", 0) ELSE Missing])}]

LoadContents ==
    {NoFile, Content("badjson"), Content("binary"), Content("nonobject")}
        \cup {JsonDump(d) : d \in LoadData}

\* a ledger that finds whatever is at storage_path
InitLoad ==
    /\ InitCommon
    /\ file \in LoadContents
    /\ handle = [t \in Threads |-> 1]

NextLoad ==
    \E t \in Threads :
        \/ \E s \in BOOLEAN : TrackCall(t, 60, s)
        \/ GetStatsCall(t)
        \/ ReloadCall(t)
        \/ InitializeStorage(t)
        \/ BackupCorruptedFile(t)
        \/ TrackUpdate(t)
        \/ Steps(t)

SpecLoad == InitLoad /\ [][NextLoad]_vars

\* a ledger on which seconds were recorded earlier today
RecordedData(n) ==
    [DefaultData EXCEPT
       !.total_minutes = JFloat(n),
       !.successful_minutes = JFloat(n),
       !.daily_aggregate = Dict([k \in Days |->
                                   IF k = FirstDay /\ n > 0 THEN JFloat(n) ELSE Missing]),
       !.weekly_aggregate = Dict([k \in Weeks |->
                                   IF k = WeekKey(FirstDay) /\ n > 0 THEN JFloat(n)
                                   ELSE Missing])]
\* 167 minutes, whose cost of 1.002 dollars prints as "$1.00"
RecordedSeconds == {0, 10020}
\* a segment, a minute, ten minutes, 200 minutes
CostDurations == {SegmentSeconds, 60, 600, 12000}
\* threshold_cost=1.0, in ten-thousandths of a dollar
Thresholds == {10000}

InitCost ==
    /\ InitCommon
    /\ file \in {JsonDump(RecordedData(n)) : n \in RecordedSeconds}
    /\ handle = [t \in Threads |-> 1]

\* usage is recorded and the cost is asked for
NextCost ==
    \E t \in Threads :
        \/ \E d \in CostDurations, s \in BOOLEAN : TrackCall(t, d, s)
        \/ GetStatsCall(t)
        \/ \E c \in Thresholds : CostWarningCall(t, c)
        \/ TrackUpdate(t)
        \/ Steps(t)

SpecCost == InitCost /\ [][NextCost]_vars

\* a session: the producer, the consumer and the ledger behind it
NextPipeline ==
    \/ StartListening
    \/ \E p \in Threads :
         \/ BeginCapture(p)
         \/ \E sig \in Signals : Capture(p, sig)
    \/ \E t \in Threads :
         \/ Dequeue(t)
         \/ \E resp \in GoogleResponses : Google(t, resp)
         \/ \E resp \in GoogleResponses : GoogleRetry(t, resp)
         \/ WhisperGate(t)
         \/ \E outcome \in PaidOutcomes : WhisperApi(t, outcome)
         \/ WhisperDone(t)
         \/ TrackUpdate(t)
         \/ Steps(t)

SpecPipeline == Init /\ [][NextPipeline]_vars

\* what the services answer in the sessions that are started and stopped
SessionSignals == {[rms |-> SecondaryFloor, zcr |-> NoiseCeiling]}
SessionResponses ==
    {GoogleResponse("list", Salam, 95),
     GoogleResponse("UnknownValueError", <<>>, Absent)}
SessionOutcomes ==
    {[kind |-> "text", text |-> Salam], [kind |-> "APIError", text |-> <<>>]}

\* sessions that are started, stopped, started again and closed
NextSession ==
    \/ StartListening
    \/ StopListening
    \/ OnClosing
    \/ ProcessExit
    \/ \E p \in Threads :
         \/ BeginCapture(p)
         \/ \E sig \in SessionSignals : Capture(p, sig)
         \/ ProducerExit(p)
    \/ \E t \in Threads :
         \/ Dequeue(t)
         \/ ConsumerExit(t)
         \/ \E resp \in SessionResponses : Google(t, resp)
         \/ WhisperGate(t)
         \/ \E outcome \in SessionOutcomes : WhisperApi(t, outcome)
         \/ WhisperDone(t)
         \/ TrackUpdate(t)
         \/ Steps(t)

SpecSession == Init /\ [][NextSession]_vars

\* the confidences Google Speech reports with a text, in hundredths: at, next
\* to and beyond the thresholds and the ends of the range
ReportedConfidences == {-5, 0, 69, 70, 89, 90, 100, 120}
ConfidenceResponses ==
    {GoogleResponse("list", Salam, c) : c \in ReportedConfidences}
        \cup {GoogleResponse("UnknownValueError", <<>>, Absent)}

\* a session in which texts of every confidence are shown
NextConfidence ==
    \/ StartListening
    \/ \E p \in Threads :
         \/ BeginCapture(p)
         \/ \E sig \in SessionSignals : Capture(p, sig)
    \/ \E t \in Threads :
         \/ Dequeue(t)
         \/ \E resp \in ConfidenceResponses : Google(t, resp)
         \/ WhisperGate(t)
         \/ \E outcome \in SessionOutcomes : WhisperApi(t, outcome)
         \/ WhisperDone(t)
         \/ TrackUpdate(t)
         \/ Steps(t)

SpecConfidence == Init /\ [][NextConfidence]_vars

\* the answers of the services, the lost answer among them
LiveOutcomes == SessionOutcomes \cup {[kind |-> "timeout", text |-> <<>>]}

\* what thread t does next as the consumer of a session
ConsumerStep(t) ==
    \/ Dequeue(t)
    \/ \E resp \in SessionResponses : Google(t, resp)
    \/ GoogleNoAnswer(t)
    \/ WhisperGate(t)
    \/ \E outcome \in LiveOutcomes : WhisperApi(t, outcome)
    \/ WhisperDone(t)
    \/ TrackUpdate(t)
    \/ Steps(t)

NextLive ==
    \/ StartListening
    \/ \E p \in Threads :
         \/ BeginCapture(p)
         \/ \E sig \in SessionSignals : Capture(p, sig)
    \/ \E t \in Threads : ConsumerStep(t)

\* a session whose threads are scheduled: a thread that can take a step
\* takes one
SpecLive ==
    /\ Init
    /\ [][NextLive]_vars
    /\ \A t \in Threads : WF_vars(ConsumerStep(t))

\* the program is started with whatever is at the catalogue's path
InitStartup ==
    /\ InitBase
    /\ file = JsonDump(DefaultData)
    /\ handle = [t \in Threads |-> 1]
    /\ catalog \in Catalogs
    /\ app = "unbuilt"
    /\ speech_contexts = <<>>
    /\ tracker_instance = 0
    /\ getter = [t \in Threads |-> "idle"]

NextStartup ==
    \/ Construct
    \/ StartListening
    \/ \E p \in Threads :
         \/ BeginCapture(p)
         \/ \E sig \in SessionSignals : Capture(p, sig)
    \/ \E t \in Threads :
         \/ Dequeue(t)
         \/ \E resp \in SessionResponses : Google(t, resp)
         \/ WhisperGate(t)
         \/ \E outcome \in SessionOutcomes : WhisperApi(t, outcome)
         \/ WhisperDone(t)
         \/ TrackUpdate(t)
         \/ Steps(t)

SpecStartup == InitStartup /\ [][NextStartup]_vars

\* threads that ask get_tracker for the ledger before anyone has created it
InitTracker ==
    /\ InitBase
    /\ file = JsonDump(DefaultData)
    /\ handle = [t \in Threads |-> 0]
    /\ catalog = NoCatalog
    /\ app = "unbuilt"
    /\ speech_contexts = <<>>
    /\ tracker_instance = 0
    /\ getter = [t \in Threads |-> "idle"]

NextTracker ==
    \E t \in Threads :
        \/ GetTrackerTest(t)
        \/ GetTrackerCreate(t)
        \/ \E s \in BOOLEAN : TrackThrough(t, 60, s)
        \/ TrackUpdate(t)
        \/ Steps(t)

SpecTracker == InitTracker /\ [][NextTracker]_vars

\* whisper_recognize called on any AudioData
NextWhisper ==
    \E t \in Threads :
        \/ \E audio \in AudioInputs : RecognizeCall(t, audio)
        \/ WhisperGate(t)
        \/ \E outcome \in PaidOutcomes : WhisperApi(t, outcome)
        \/ WhisperDone(t)
        \/ TrackUpdate(t)
        \/ Steps(t)

SpecWhisper == Init /\ [][NextWhisper]_vars

\* ------------------------------------------------------------ properties
\* a thread is inside track_audio_duration and has not yet replaced the file
Pending(t) ==
    /\ frame[t].fn = "track_audio_duration"
    /\ frame[t].pc \in {"acquire", "read", "update", "w_open", "w_dump", "w_replace"}

RECURSIVE PendingSeconds(_)
PendingSeconds(S) ==
    IF S = {} THEN 0
    ELSE LET t == CHOOSE x \in S : TRUE
         IN  (IF Pending(t) THEN frame[t].duration_seconds ELSE 0)
                 + PendingSeconds(S \ {t})

\* C1: threads that call track_audio_duration concurrently on one instance lose
\* no update: at every moment the stored total_minutes and the durations of the
\* calls that have not yet written add up to the durations passed in, so that
\* once every call has returned the stored total is their sum.
C1_NoLostUpdate ==
    /\ file.kind = "json"
    /\ file.data.total_minutes.n + PendingSeconds(Threads) = issued

\* C1 witness: one thread has written its update and still holds the lock while
\* another thread waits for the lock inside track_audio_duration
C1_Witness ==
    \E t, u \in Threads :
        /\ t # u
        /\ frame[t].pc = "acquire" /\ frame[t].fn = "track_audio_duration"
        /\ lock[handle[t]] = u
        /\ frame[u].pc = "return" /\ frame[u].fn = "track_audio_duration"
        /\ file.data.total_minutes.n = frame[u].duration_seconds

\* C2: a track_audio_duration call with d > 0 adds d/60 to the stored
\* total_minutes, to the entry of its day and to the entry of its ISO week; with
\* success it adds d/60 to successful_minutes and leaves failed_attempts, without
\* success it leaves successful_minutes and adds 1 to failed_attempts.
C2_TrackEffect ==
    (returned.op = "track_audio_duration" /\ returned.duration_seconds > 0) =>
        LET b == returned.before.data
            a == returned.after.data
            d == returned.duration_seconds
            dk == returned.day_key
            wk == WeekKey(returned.day_key)
        IN  /\ returned.after.kind = "json"
            /\ a.total_minutes.n = b.total_minutes.n + d
            /\ a.daily_aggregate.m[dk].n = b.daily_aggregate.m[dk].n + d
            /\ a.weekly_aggregate.m[wk].n = b.weekly_aggregate.m[wk].n + d
            /\ \A k \in Days \ {dk} : a.daily_aggregate.m[k] = b.daily_aggregate.m[k]
            /\ \A k \in Weeks \ {wk} : a.weekly_aggregate.m[k] = b.weekly_aggregate.m[k]
            /\ IF returned.success
               THEN /\ a.successful_minutes.n = b.successful_minutes.n + d
                    /\ a.failed_attempts.n = b.failed_attempts.n
               ELSE /\ a.successful_minutes.n = b.successful_minutes.n
                    /\ a.failed_attempts.n = b.failed_attempts.n + 1

\* C2 witness: a failed attempt recorded on a ledger that already holds minutes
C2_Witness ==
    /\ returned.op = "track_audio_duration"
    /\ returned.duration_seconds > 0
    /\ ~returned.success
    /\ returned.before.data.total_minutes.n > 0

\* C3: a track_audio_duration call with d <= 0 returns and leaves the ledger as
\* it found it: the storage file is the same and the snapshot returned is the
\* one of the ledger before the call.
C3_NonPositiveNoop ==
    (returned.op = "track_audio_duration" /\ returned.duration_seconds <= 0) =>
        /\ returned.after = returned.before
        /\ returned.stats = FormatStats(returned.before.data, returned.day)

\* C3 witness: a negative duration passed to a ledger that holds minutes
C3_Witness ==
    /\ returned.op = "track_audio_duration"
    /\ returned.duration_seconds < 0
    /\ returned.before.data.total_minutes.n > 0

\* C4: a new UsageTracker on the same storage path reports the snapshot the
\* original instance reported last (on the same day: the snapshot holds the
\* minutes of today and of this week).
C4_ReloadSame ==
    (returned.op = "reload" /\ returned.prevDay = returned.day) =>
        returned.stats = returned.prevStats

\* C4 witness: a reload after calls that recorded minutes
C4_Witness ==
    /\ returned.op = "reload"
    /\ returned.prevDay = returned.day
    /\ returned.prevStats.total_minutes > 0

\* no usage record can be parsed from the file
Unparseable(f) == LoadOutcome(f) \notin {"ok", "FileNotFoundError"}

\* C5: when a call finds an unparseable storage file, the content is kept under
\* a backup name, and the snapshot a query reports is all zero.
C5_CorruptRecovered ==
    (returned.op # "none" /\ Unparseable(returned.before)) =>
        /\ returned.before \in backups
        /\ returned.op \in {"get_usage_stats", "reload"} =>
               returned.stats = FormatStats(DefaultData, returned.day)

\* a thread is inside _write_data
Writing(t) == frame[t].pc \in {"w_open", "w_dump", "w_replace"}

\* C6: whenever the process dies, also in the middle of _write_data, the storage
\* file holds a complete record: the one that was there when the writing call
\* took the lock, or the one being written.
C6_AtomicWrite ==
    /\ file.kind = "json"
    /\ \A t \in Threads :
         Writing(t) => file \in {frame[t].before, JsonDump(frame[t].data)}

\* C6 witness: the process died in the middle of a write (a cut temporary file is
\* left behind, nobody is writing) on a ledger that holds minutes
C6_Witness ==
    /\ AllIdle
    /\ tmp.kind = "partial"
    /\ file.kind = "json"
    /\ file.data.total_minutes.n > 0

\* C7: total_minutes >= successful_minutes >= 0 in every state of the ledger
C7_TotalCoversSuccessful ==
    file.kind = "json" =>
        /\ file.data.total_minutes.n >= file.data.successful_minutes.n
        /\ file.data.successful_minutes.n >= 0

\* C8: calls made through two UsageTracker instances on the same storage path
\* lose no update: once every call has returned, the stored total_minutes is the
\* sum of the durations passed in.
C8_HandlesLoseNoUpdate ==
    AllIdle =>
        /\ file.kind = "json"
        /\ file.data.total_minutes.n = issued

\* C9: the snapshot track_audio_duration returns is what get_usage_stats reports
\* right afterwards, also when the write failed: the snapshot of the record stored
\* when the call returns.
C9_AllOrNothing ==
    (returned.op = "track_audio_duration" /\ returned.after.kind = "json") =>
        returned.stats =
            Snapshot(ValidateDataStructure(returned.after.data), returned.day)

\* the number a field of a stored document holds when it is valid, else its default
KeptMinutes(v) == IF IsNumber(v) THEN v.n ELSE 0
KeptAttempts(v) == IF v.t = "int" THEN v.n ELSE 0

\* C10: a query on a stored document that parses but lacks fields or has fields
\* of a wrong type reports the value of every valid field and the default for
\* the others; the record is not discarded.
C10_RepairKeepsValid ==
    (returned.op \in {"get_usage_stats", "reload"} /\ returned.before.kind = "json") =>
        /\ ~returned.stats.error
        /\ returned.stats.total_minutes =
               Round2(KeptMinutes(returned.before.data.total_minutes))
        /\ returned.stats.successful_minutes =
               Round2(KeptMinutes(returned.before.data.successful_minutes))
        /\ returned.stats.failed_attempts =
               KeptAttempts(returned.before.data.failed_attempts)

\* ------------------------------------------- properties of the recognition path
\* how often x was logged for a segment
Count(log, x) == Cardinality({i \in 1..Len(log) : log[i] = x})
InWhisper(w) == w.pc \in {"wr_gate", "wr_api", "wr_tracking"}
Minutes(f, field) == f.data[field].n

C12_NoSpeechFallsBack ==
    (finished.loop /\ finished.google \in {"UnknownValueError", "empty"}) =>
        Count(finished.log, "whisper_recognize") >= 1

\* C13: for a captured segment whose energy is below the silence floor no
\* service is called, Google or OpenAI, the storage file of the ledger is the
\* same when the consumer is done with it as when it took it, and nothing is
\* shown.
C13_SilenceDropped ==
    (finished.loop /\ finished.seg.rms < SilenceFloor) =>
        /\ finished.log = <<>>
        /\ finished.after = finished.before
        /\ ~finished.emitted

\* the check of the signal ran on the audio and found it good enough
Checked(audio) ==
    audio.whole /\ audio.rms >= SecondaryFloor /\ audio.zcr <= NoiseCeiling

C15_StrictThresholds ==
    (finished.verdict # "none" /\ finished.seg.whole) =>
        /\ finished.seg.rms = SilenceFloor => finished.verdict # "silence"
        /\ finished.seg.rms = SecondaryFloor =>
               finished.verdict \notin {"silence", "google"}
        /\ (finished.seg.rms >= SecondaryFloor /\ finished.seg.zcr = NoiseCeiling) =>
               finished.verdict = "passed"

\* audio at both thresholds passed the check and the API was called for it
C15_Witness ==
    /\ finished.seg.rms = SecondaryFloor
    /\ finished.seg.zcr = NoiseCeiling
    /\ finished.verdict = "passed"
    /\ Count(finished.log, "paid") = 1

Gibberish(s) == TotalAlpha(s) > 0 /\ 2 * PersianChars(s) < TotalAlpha(s)
FewChars(s) == Len(s) <= 10 /\ UniqueChars(s) <= 3

\* C16: a text of the paid service in which fewer than half of the letters
\* are Persian, or which has at most 10 characters and at most 3 different
\* ones, is not shown and adds nothing to successful_minutes.
C16_GibberishDropped ==
    (/\ finished.loop
     /\ finished.paid = "text"
     /\ \/ Gibberish(Strip(finished.paid_text))
        \/ FewChars(Strip(finished.paid_text))) =>
        /\ ~finished.emitted
        /\ Minutes(finished.after, "successful_minutes")
               = Minutes(finished.before, "successful_minutes")

\* C17: a text of the paid service that is shorter than 2 characters once
\* stripped, the empty text included, is not shown and adds nothing to
\* successful_minutes.
C17_ShortTextRejected ==
    (/\ finished.loop
     /\ finished.paid = "text"
     /\ Len(Strip(finished.paid_text)) < 2) =>
        /\ ~finished.emitted
        /\ Minutes(finished.after, "successful_minutes")
               = Minutes(finished.before, "successful_minutes")

C19_SuccessRecorded ==
    (finished.loop /\ finished.emitted) =>
        Minutes(finished.after, "successful_minutes")
            = Minutes(finished.before, "successful_minutes") + finished.seg.seconds

\* C20: every text that came from the paid service is shown with no
\* confidence, whatever was processed before it.
C20_PaidHasNoConfidence ==
    \A i \in 1..Len(transcript) :
        transcript[i].service = "Whisper API" => transcript[i].confidence = Absent

\* ------------------------------------------------- properties of the cost
\* the storage file is the one a new ledger writes
\* C21: the texts of the transcript stand in the order in which their
\* segments were captured, whatever starts and stops happened.
C21_CaptureOrder ==
    \A i, j \in 1..Len(transcript) :
        i < j => transcript[i].seg < transcript[j].seg

\* C22: at any time at most one producer thread is inside a capture window and
\* at most one consumer thread has a segment in hand, so no two recognition
\* calls are in flight together.
C22_OneProducerOneConsumer ==
    /\ Cardinality({p \in Threads : producer[p] = "recording"}) <= 1
    /\ Cardinality({t \in Threads : worker[t].pc \notin {"off", "poll"}}) <= 1

\* C23: a thread that was running when stop_listening was called begins no
\* further capture window and takes no further segment, also when
\* start_listening is called again before it has ended.
C23_StoppedThreadsStartNothing == late = {}

\* C24: once the process has exited after on_closing, no ledger write was cut
\* short by the exit and the ledger file can be parsed.
C24_WriteCompletesBeforeExit ==
    /\ closing # "exited_in_write"
    /\ closing = "exited" => LoadOutcome(file) = "ok"

\* no session is running and every thread has ended
Quiescent ==
    /\ ~is_listening
    /\ closing = "open"
    /\ \A t \in Threads : worker[t].pc = "off" /\ producer[t] = "off"

\* C25: no segment is taken from the queue twice, and when the sessions have
\* been stopped and their threads have ended no segment is left in the queue.
C25_ConsumedExactlyOnce ==
    /\ \A i, j \in 1..Len(taken) : i # j => taken[i] # taken[j]
    /\ Quiescent => audio_queue = <<>>

Fresh(f) == f = JsonDump(DefaultData)

\* C26 as stated: after track_audio_duration(600, True) on a fresh ledger the
\* snapshot returned has the estimated_cost "$3.60".
C26_CostOf600 ==
    (/\ returned.op = "track_audio_duration"
     /\ returned.duration_seconds = 600
     /\ returned.success
     /\ Fresh(returned.before)) =>
        returned.stats.estimated_cost = 360

\* C26, amended: after track_audio_duration(600, True) on a fresh ledger, at
\* 0.006 dollars per minute, the snapshot returned has the estimated_cost
\* "$0.06".
C26_CostOf600Amended ==
    (/\ returned.op = "track_audio_duration"
     /\ returned.duration_seconds = 600
     /\ returned.success
     /\ Fresh(returned.before)) =>
        returned.stats.estimated_cost = 6

\* ten minutes were recorded on a fresh ledger
C26_Witness ==
    /\ returned.op = "track_audio_duration"
    /\ returned.duration_seconds = 600
    /\ returned.success
    /\ Fresh(returned.before)
    /\ Minutes(returned.after, "total_minutes") = 600

C28_WarningUnrounded ==
    returned.op = "get_cost_warning" =>
        (returned.warning[1] <=>
            UnroundedCost(Minutes(returned.after, "total_minutes"))
                > returned.threshold_cost)

\* C29: the total_minutes of the snapshot track_audio_duration returns is the
\* recorded total to within 3 decimal places, and the cost of one 5-second
\* segment on a fresh ledger is (5/60) x 0.006 dollars to within 4 decimal
\* places.
C29_SnapshotPrecise ==
    returned.op = "track_audio_duration" =>
        LET n == Minutes(returned.after, "total_minutes")
            h == returned.stats.total_minutes
        IN  /\ 60 * h - 100 * n < 3
            /\ 100 * n - 60 * h < 3
            /\ (Fresh(returned.before) /\ returned.duration_seconds = SegmentSeconds) =>
                   100 * returned.stats.estimated_cost = UnroundedCost(n)

\* ------------------------------------ properties of the recognition path
\* C30: when Google Speech and the paid service both failed for a segment,
\* nothing is shown for it and, once the consumer is done with it,
\* current_service names the paid service.
C30_StatusNamesLastBackend ==
    (/\ finished.loop
     /\ finished.google \in {"UnknownValueError", "RequestError"}
     /\ finished.result.kind = "raise"
     /\ worker[finished.thread].pc = "poll") =>
        /\ ~finished.emitted
        /\ current_service = "Whisper API"

\* C31: when the catalogue file is absent, construction of the application
\* object completes with an empty hint list, and the session can then listen.
C31_AbsentCatalogNotFatal ==
    catalog.kind = "absent" /\ app # "unbuilt"
        => app = "built" /\ speech_contexts = <<>>

SelfBlocked(t) == frame[t].pc = "acquire" /\ lock[handle[t]] = t

\* C33: reset_usage with a period other than "daily", "weekly" and "all" never
\* comes to wait for the lock it holds, and when it has returned the storage
\* file is as it was when the call took the lock.
C33_UnknownPeriodReturns ==
    /\ \A t \in Threads :
         (/\ frame[t].op = "reset_usage"
          /\ frame[t].period \notin {"daily", "weekly", "all"}) => ~SelfBlocked(t)
    /\ (/\ returned.op = "reset_usage"
        /\ returned.period \notin {"daily", "weekly", "all"}) =>
           returned.after = returned.before

\* the calls made for one segment are in the order the claim allows
FreeFirst(log) ==
    /\ log # <<>> => log[1] = "google"
    /\ Count(log, "whisper_recognize") <= 1
    /\ Count(log, "paid") <= 1
    /\ \A i, j \in 1..Len(log) :
         i < j /\ log[i] \in {"whisper_recognize", "paid"} => log[j] # "google"

C35_SegmentCompletes ==
    \A t \in Threads :
        (worker[t].loop /\ worker[t].pc # "poll") ~> (worker[t].pc = "poll")

\* C36: when the best alternative of Google Speech carries no confidence, the
\* segment is shown with no confidence and is not logged for review as a
\* low-confidence segment.
C36_NoFabricatedConfidence ==
    (/\ finished.loop
     /\ finished.google = "list"
     /\ finished.reported = Absent
     /\ finished.emitted) =>
        /\ transcript[Len(transcript)].confidence = Absent
        /\ ~finished.low_logged

\* C37: track_audio_duration never comes to wait for the lock it holds,
\* whatever the storage file holds: an exception inside "with self._lock" is
\* answered with the statistics and the lock is released.
C37_TrackReleasesLock ==
    \A t \in Threads : frame[t].op = "track_audio_duration" => ~SelfBlocked(t)

\* the sum of the minutes of an aggregate of a stored record
AggregateSum(a) ==
    LET keys == {k \in DOMAIN a.m : IsNumber(a.m[k])}
        RECURSIVE Sum(_)
        Sum(S) == IF S = {} THEN 0
                  ELSE LET k == CHOOSE x \in S : TRUE
                       IN  a.m[k].n + Sum(S \ {k})
    IN  Sum(keys)

\* C38: in the storage file total_minutes is the sum of the daily aggregate
\* and the sum of the weekly aggregate, after any calls of
\* track_audio_duration and reset_usage.
C38_TotalIsSumOfAggregates ==
    file.kind = "json" =>
        /\ file.data.total_minutes.n = AggregateSum(file.data.daily_aggregate)
        /\ file.data.total_minutes.n = AggregateSum(file.data.weekly_aggregate)

\* C39: every thread that has got the ledger from get_tracker has got the
\* same instance, also when the first calls run together.
C39_OneTracker ==
    \A t, u \in Threads :
        getter[t] = "done" /\ getter[u] = "done" => handle[t] = handle[u]

\* C40: while the session listens and the consumer has no segment in hand,
\* the status shown is not "processing".
C40_StatusReturnsToListening ==
    (is_listening /\ \A t \in Threads : worker[t].pc \in {"off", "poll"}) =>
        status # "processing"

====
